---- MODULE Spec2Model ----
(***************************************************************************)
(* A model of ping-the-internet: the sweep planner (src/src/main.rs), the  *)
(* bounded-concurrency prober (src/ping-worker/src/ping.rs) and the /16    *)
(* file codec (src/ping-worker/src/file.rs).                               *)
(*                                                                         *)
(* Scheduling.  pinger_main, ping_slash_16 and the ping futures collected  *)
(* by join_all all run inside ONE tokio task, so control moves from one of *)
(* them to another only at an .await that is pending.  Every action below  *)
(* is the code between two such suspension points.  The GUI thread only    *)
(* reads the grids.                                                        *)
(*                                                                         *)
(* Durations are counted in microseconds; Duration::as_millis is the       *)
(* truncating division by 1000.  Bytes are the integers 0..255.            *)
(***************************************************************************)
EXTENDS Integers, Sequences, FiniteSets, TLC

(***************************************************************************)
(* Bounds of the model.  The source sweeps 256 x 256 /16s of 256 x 256     *)
(* addresses with 1024 permits; the model keeps the structure and scales   *)
(* the sizes.                                                              *)
(***************************************************************************)
NA == 2
NB == 2
N24 == 2
N32 == 2
Permits == 2

RETRY_LIMIT == 2

(***************************************************************************)
(* Ping outcomes: ping.rs, enum PingResult.                                *)
(***************************************************************************)
Success(time) == [tag |-> "Success", time |-> time]
Timeout == [tag |-> "Timeout", time |-> 0]
Error == [tag |-> "Error", time |-> 0]

None == [some |-> FALSE, val |-> <<>>]
Some(v) == [some |-> TRUE, val |-> v]

as_millis(time) == time \div 1000
from_millis(ms) == ms * 1000
as_u16(n) == n % 65536

(* Variant: the two RTT bytes in network order. *)
to_le_bytes_BigEndian(n) == <<(n \div 256) % 256, n % 256>>

to_le_bytes(n) == <<n % 256, (n \div 256) % 256>>

(* Variant: the two RTT bytes read in network order. *)
u16_from_be_bytes(b) == 256 * b[1] + b[2]

u16_from_le_bytes(b) == b[1] + 256 * b[2]

serialize_into(r) ==
    CASE r.tag = "Success" -> <<0>> \o to_le_bytes(as_u16(as_millis(r.time)))
      [] r.tag = "Timeout" -> <<1>>
      [] r.tag = "Error" -> <<2>>

(* nom results: ok = FALSE is Err(_); otherwise the remaining input and    *)
(* the parsed value.                                                       *)
ParseErr == [ok |-> FALSE, input |-> <<>>, value |-> <<>>]
ParseOk(input, value) == [ok |-> TRUE, input |-> input, value |-> value]

Drop(input, n) == SubSeq(input, n + 1, Len(input))

parse_from_bytes(input) ==
    IF input = <<>> \/ Head(input) \notin {0, 1, 2} THEN ParseErr
    ELSE CASE Head(input) = 0 ->
                IF Len(input) < 3 THEN ParseErr
                ELSE ParseOk(Drop(input, 3),
                             Success(from_millis(u16_from_le_bytes(SubSeq(input, 2, 3)))))
           [] Head(input) = 1 -> ParseOk(Drop(input, 1), Timeout)
           [] Head(input) = 2 -> ParseOk(Drop(input, 1), Error)

(* nom::multi::count(parse_from_bytes, n) *)
RECURSIVE count_ping_results(_, _)
count_ping_results(input, n) ==
    IF n = 0 THEN ParseOk(input, <<>>)
    ELSE LET first == parse_from_bytes(input) IN
         IF ~first.ok THEN ParseErr
         ELSE LET more == count_ping_results(first.input, n - 1) IN
              IF ~more.ok THEN ParseErr
              ELSE ParseOk(more.input, <<first.value>> \o more.value)

parse_slash_24(input) == count_ping_results(input, N32)

parse_optional_slash_24(input) ==
    IF input = <<>> \/ Head(input) \notin {0, 1} THEN ParseErr
    ELSE IF Head(input) = 0 THEN ParseOk(Drop(input, 1), None)
    ELSE LET p == parse_slash_24(Drop(input, 1)) IN
         IF ~p.ok THEN ParseErr ELSE ParseOk(p.input, Some(p.value))

(* nom::multi::count(parse_optional_slash_24, n) *)
RECURSIVE count_optional_slash_24(_, _)
count_optional_slash_24(input, n) ==
    IF n = 0 THEN ParseOk(input, <<>>)
    ELSE LET first == parse_optional_slash_24(input) IN
         IF ~first.ok THEN ParseErr
         ELSE LET more == count_optional_slash_24(first.input, n - 1) IN
              IF ~more.ok THEN ParseErr
              ELSE ParseOk(more.input, <<first.value>> \o more.value)

parse_slash_16(input) == count_optional_slash_24(input, N24)

(* save_slash_16, lines 32-44: the bytes handed to the encoder. *)
RECURSIVE serialize_slash_24(_)
serialize_slash_24(slash_24) ==
    IF slash_24 = <<>> THEN <<>>
    ELSE serialize_into(Head(slash_24)) \o serialize_slash_24(Tail(slash_24))

RECURSIVE serialize_slash_16(_)
serialize_slash_16(results) ==
    IF results = <<>> THEN <<>>
    ELSE (IF Head(results).some
          THEN <<1>> \o serialize_slash_24(Head(results).val)
          ELSE <<0>>) \o serialize_slash_16(Tail(results))

(***************************************************************************)
(* Zlib.  async_compression is a library; what the program relies on is    *)
(* that the decoder returns the encoder's input for a complete stream and  *)
(* an io::Error for a stream that is cut short or damaged.  The model's    *)
(* stream is one stored block: its length, the data, a checksum byte.      *)
(***************************************************************************)
RECURSIVE SumBytes(_)
SumBytes(bytes) == IF bytes = <<>> THEN 0 ELSE Head(bytes) + SumBytes(Tail(bytes))

Checksum(bytes) == (1 + SumBytes(bytes)) % 251

ZlibEncoder(bytes) == <<Len(bytes)>> \o bytes \o <<Checksum(bytes)>>

ZlibErr == [ok |-> FALSE, data |-> <<>>]
ZlibDecoder(data) ==
    IF Len(data) >= 2
       /\ data[1] = Len(data) - 2
       /\ data[Len(data)] = Checksum(SubSeq(data, 2, Len(data) - 1))
    THEN [ok |-> TRUE, data |-> SubSeq(data, 2, Len(data) - 1)]
    ELSE ZlibErr

(* read_slash_16 from the bytes of an existing file, lines 83-96. *)
ReadIoErr == [kind |-> "io_error", value |-> <<>>]
ReadNone == [kind |-> "none", value |-> <<>>]
ReadAssert == [kind |-> "assert_failed", value |-> <<>>]
ReadSome(v) == [kind |-> "some", value |-> v]

read_bytes(data) ==
    LET z == ZlibDecoder(data) IN
    IF ~z.ok THEN ReadIoErr
    ELSE LET p == parse_slash_16(z.data) IN
         IF ~p.ok THEN ReadNone
         ELSE IF Len(p.input) # 0 THEN ReadAssert
         ELSE ReadSome(p.value)

(***************************************************************************)
(* State.                                                                  *)
(***************************************************************************)
VARIABLES
    base_address,      \* main.rs 34-37: first two octets of the start address
    planner,           \* pinger_main / ping_slash_16: position, current /16, locals
    SLASH_16_STATES,   \* gui.rs 70: states[a][b]
    SLASH_32_STATES,   \* gui.rs 73: states[c][d]
    PING_PERMITS,      \* ping.rs 20: permits available in the semaphore
    waiters,           \* the semaphore's FIFO queue of suspended acquire() calls
    tasks,             \* the ping futures of the current /16, in emission order
    IDENTIFIER,        \* ping.rs 73
    SEQUENCE,          \* ping.rs 74
    disk,              \* ./data/{a}/{b}: whether it exists and its bytes
    network,           \* what the network does with each attempt on each address
    hist,              \* history: the disk at start, /16s probed and completed
    codec,             \* a codec call on its own: its input, bytes and output
    subnet,            \* a Subnet value on its own: how it was made, its iterator
    master             \* the master process and its workers (ping-master)

vars == <<base_address, planner, SLASH_16_STATES, SLASH_32_STATES, PING_PERMITS,
          waiters, tasks, IDENTIFIER, SEQUENCE, disk, network, hist, codec,
          subnet, master>>

Octets8 == 0 .. NA - 1
Octets16 == 0 .. NB - 1
Octets24 == 0 .. N24 - 1
Octets32 == 0 .. N32 - 1
Slash16s == Octets8 \X Octets16

NoFile == [exists |-> FALSE, bytes |-> <<>>]
File(bytes) == [exists |-> TRUE, bytes |-> bytes]

NoResult == [tag |-> "None", time |-> 0]

(***************************************************************************)
(* The network: what pinger.ping answers on each attempt (ping.rs 101-103) *)
(* is an input.  A run draws one network: every address times out, except  *)
(* that one address may follow another script.  Reply times: one below a   *)
(* millisecond, one with a sub-millisecond part that needs both RTT bytes. *)
(***************************************************************************)
NetReply(time) == [kind |-> "reply", time |-> time]
NetTimeout == [kind |-> "timeout", time |-> 0]
NetError == [kind |-> "error", time |-> 0]

ReplyTimes == {700, 300500}

Scripts ==
    {<<NetReply(time), NetTimeout>> : time \in ReplyTimes}
    \cup {<<NetError, NetReply(time)>> : time \in ReplyTimes}
    \cup {<<NetError, NetTimeout>>, <<NetError, NetError>>}

Silent == <<NetTimeout, NetTimeout>>

SpecialAddress == <<1, 0>>

Networks ==
    { [c \in Octets24 |-> [d \in Octets32 |->
          IF <<c, d>> = SpecialAddress THEN script ELSE Silent]] :
      script \in Scripts \cup {Silent} }

(***************************************************************************)
(* Files a run may find on disk: written by an earlier run (complete, or   *)
(* cut short by a failed write) or damaged afterwards.                     *)
(***************************************************************************)
AllAbsent == [c \in 1 .. N24 |-> None]
OneAlive ==
    [c \in 1 .. N24 |->
        IF c = 1
        THEN Some([d \in 1 .. N32 |-> IF d = 1 THEN Success(from_millis(12)) ELSE Timeout])
        ELSE None]

SeedFiles ==
    { File(ZlibEncoder(serialize_slash_16(AllAbsent))),
      File(ZlibEncoder(serialize_slash_16(OneAlive))),
      File(<<>>),
      File(SubSeq(ZlibEncoder(serialize_slash_16(OneAlive)), 1, 3)),
      File(ZlibEncoder(<<7>> \o serialize_slash_16(AllAbsent))),
      File(ZlibEncoder(<<0>>)),
      File(ZlibEncoder(serialize_slash_16(AllAbsent) \o <<0>>)) }

(* A run starts with no file, or with one at the /16 it starts from. *)
InitialDisks(start) ==
    { [s \in Slash16s |-> IF s = start THEN file ELSE NoFile] :
      file \in SeedFiles \cup {NoFile} }

(***************************************************************************)
(* The planner's iteration order, main.rs 45-55.                           *)
(***************************************************************************)
Index(a, b) == a * NB + b
OctetA(n) == n \div NB
OctetB(n) == n % NB

(* Variant: the second octet of the start address is ignored. *)
IsCandidate_FirstOctetOnly(n) == ~(OctetA(n) < base_address[1])

(* main.rs 49-55: the two `continue` conditions of the nested loops *)
IsCandidate(n) ==
    /\ ~(OctetA(n) < base_address[1])
    /\ ~(OctetA(n) = base_address[1] /\ OctetB(n) < base_address[2])

CandidatesAfter(n) == {m \in n + 1 .. NA * NB - 1 : IsCandidate(m)}

Min(S) == CHOOSE x \in S : \A y \in S : x <= y

Cur == <<OctetA(planner.cur), OctetB(planner.cur)>>

(***************************************************************************)
(* Emission order of the ping futures, main.rs 115-127: N32 rounds over    *)
(* the N24 per-/24 iterators, each giving its next /32.                    *)
(***************************************************************************)
(* Variant: the addresses of one /24 are emitted one after the other. *)
Round_OneSlash24(r) == [d \in 1 .. N24 |-> <<r, d - 1>>]

Round(r) == [c \in 1 .. N24 |-> <<c - 1, r>>]

RECURSIVE Rounds(_)
Rounds(r) == IF r = N32 THEN <<>> ELSE Round(r) \o Rounds(r + 1)

slash_32s == Rounds(0)

NumTasks == Len(slash_32s)
TaskIds == 1 .. NumTasks

(* ping.rs 73-74: IDENTIFIER and SEQUENCE are AtomicU16, which have as     *)
(* many values as a /16 has addresses (2^16 = 256 * 256); fetch_add wraps. *)
U16_RANGE == N24 * N32

Holding(t) == tasks[t].pc \in {"stagger", "attempt", "backoff"}
Holders == {t \in DOMAIN tasks : Holding(t)}

CodecIdle == [op |-> "idle", stage |-> "idle", r |-> <<>>, rest |-> <<>>,
              bytes |-> <<>>, out |-> <<>>]

SubnetIdle == [stage |-> "idle"]

MasterIdle == [stage |-> "idle"]

TypeOK ==
    /\ base_address \in Slash16s
    /\ PING_PERMITS \in 0 .. Permits
    /\ IDENTIFIER \in 0 .. U16_RANGE - 1
    /\ SEQUENCE \in 0 .. U16_RANGE - 1

Init ==
    /\ base_address \in Slash16s
    /\ planner = [pc |-> "next", cur |-> -1, results |-> <<>>, encoded |-> <<>>,
                  cause |-> "none"]
    /\ SLASH_16_STATES = [a \in Octets8 |-> [b \in Octets16 |-> "Scheduled"]]
    /\ SLASH_32_STATES = [c \in Octets24 |-> [d \in Octets32 |-> "Scheduled"]]
    /\ PING_PERMITS = Permits
    /\ waiters = <<>>
    /\ tasks = <<>>
    /\ IDENTIFIER = 0
    /\ SEQUENCE = 0
    /\ disk \in InitialDisks(base_address)
    /\ network \in Networks
    /\ hist = [disk0 |-> disk, probed |-> {}, completed |-> {}, read |-> "none"]
    /\ codec = CodecIdle
    /\ subnet = SubnetIdle
    /\ master = MasterIdle

(***************************************************************************)
(* The planner: pinger_main and ping_slash_16 (main.rs).                   *)
(***************************************************************************)
Mark16(n, state) ==
    [SLASH_16_STATES EXCEPT ![OctetA(n)][OctetB(n)] = state]

(* Variant: the planner does not await the /16 it is probing. *)
PlannerNext_NotAwaited ==
    /\ planner.pc \in {"next", "join"}
    /\ IF CandidatesAfter(planner.cur) = {}
       THEN /\ planner' = [planner EXCEPT !.pc = "finished"]
            /\ UNCHANGED SLASH_16_STATES
       ELSE LET n == Min(CandidatesAfter(planner.cur)) IN
            /\ SLASH_16_STATES' = Mark16(n, "Pending")
            /\ planner' = [planner EXCEPT !.pc = "read", !.cur = n]
    /\ UNCHANGED <<codec, subnet, master,
                   base_address, SLASH_32_STATES, PING_PERMITS, waiters, tasks,
                   IDENTIFIER, SEQUENCE, disk, network, hist>>

(* Variant: the /16 is not marked Pending before it is read. *)
PlannerNext_NoPending ==
    /\ planner.pc = "next"
    /\ IF CandidatesAfter(planner.cur) = {}
       THEN planner' = [planner EXCEPT !.pc = "finished"]
       ELSE planner' = [planner EXCEPT !.pc = "read",
                                       !.cur = Min(CandidatesAfter(planner.cur))]
    /\ UNCHANGED <<codec, subnet, master,
                   base_address, SLASH_16_STATES, SLASH_32_STATES, PING_PERMITS,
                   waiters, tasks, IDENTIFIER, SEQUENCE, disk, network, hist>>

(* main.rs 45-68: advance to the next candidate /16 and mark it Pending;   *)
(* line 98 when the iteration is exhausted.                                *)
PlannerNext ==
    /\ planner.pc = "next"
    /\ IF CandidatesAfter(planner.cur) = {}
       THEN /\ planner' = [planner EXCEPT !.pc = "finished"]
            /\ UNCHANGED SLASH_16_STATES
       ELSE LET n == Min(CandidatesAfter(planner.cur)) IN
            /\ SLASH_16_STATES' = Mark16(n, "Pending")
            /\ planner' = [planner EXCEPT !.pc = "read", !.cur = n]
    /\ UNCHANGED <<codec, subnet, master,
                   base_address, SLASH_32_STATES, PING_PERMITS, waiters, tasks,
                   IDENTIFIER, SEQUENCE, disk, network, hist>>

(* Variant: an existing file is never taken as a result. *)
read_slash_16_NotFound(file, fs_ok) == ReadNone

(* file.rs 66-97: fs_ok is whether tokio::fs::read succeeds. *)
read_slash_16(file, fs_ok) ==
    IF ~file.exists THEN ReadNone
    ELSE IF ~fs_ok THEN ReadIoErr
    ELSE read_bytes(file.bytes)

(* main.rs 104-106 and, when the file holds a result, 87-94. *)
ReadSlash16 ==
    /\ planner.pc = "read"
    /\ \E fs_ok \in BOOLEAN :
        LET r == read_slash_16(disk[Cur], fs_ok) IN
        /\ hist' = [hist EXCEPT !.read = r.kind]
        /\ CASE r.kind = "io_error" ->
                  /\ planner' = [planner EXCEPT !.pc = "panicked",
                                    !.cause = IF fs_ok THEN "zlib_error" ELSE "read_error"]
                  /\ UNCHANGED SLASH_16_STATES
             [] r.kind = "assert_failed" ->
                  /\ planner' = [planner EXCEPT !.pc = "panicked",
                                                !.cause = "trailing_bytes"]
                  /\ UNCHANGED SLASH_16_STATES
             [] r.kind = "none" ->
                  /\ planner' = [planner EXCEPT !.pc = "probe"]
                  /\ UNCHANGED SLASH_16_STATES
             [] r.kind = "some" ->
                  /\ planner' = [planner EXCEPT !.pc = "next"]
                  /\ SLASH_16_STATES' = Mark16(planner.cur, "Skipped")
    /\ UNCHANGED <<codec, subnet, master,
                   base_address, SLASH_32_STATES, PING_PERMITS, waiters, tasks,
                   IDENTIFIER, SEQUENCE, disk, network>>

(* Variant: acquire() does not wait for a free permit. *)
NewTask_NoWait(k, granted) ==
    [pc |-> "stagger",
     address |-> Cur \o slash_32s[k],
     i |-> (IDENTIFIER + k - 1) % U16_RANGE,
     s |-> (SEQUENCE + k - 1) % U16_RANGE,
     retry_counter |-> 0,
     sent |-> <<>>,
     result |-> NoResult]

(* The first poll of the k-th future, ping.rs 76-79: it takes its          *)
(* identifier and sequence number and asks for a permit.                   *)
NewTask(k, granted) ==
    [pc |-> IF k <= granted THEN "stagger" ELSE "queued",
     address |-> Cur \o slash_32s[k],
     i |-> (IDENTIFIER + k - 1) % U16_RANGE,
     s |-> (SEQUENCE + k - 1) % U16_RANGE,
     retry_counter |-> 0,
     sent |-> <<>>,
     result |-> NoResult]

(* Variant: the /32 grid is not reset before the futures are built. *)
StartProbe_NoReset ==
    /\ planner.pc = "probe"
    /\ LET granted == IF PING_PERMITS < NumTasks THEN PING_PERMITS ELSE NumTasks IN
       /\ tasks' = [k \in TaskIds |-> NewTask(k, granted)]
       /\ PING_PERMITS' = PING_PERMITS - granted
       /\ waiters' = waiters \o [j \in 1 .. NumTasks - granted |-> granted + j]
    /\ IDENTIFIER' = (IDENTIFIER + NumTasks) % U16_RANGE
    /\ SEQUENCE' = (SEQUENCE + NumTasks) % U16_RANGE
    /\ planner' = [planner EXCEPT !.pc = "join"]
    /\ hist' = [hist EXCEPT !.probed = @ \cup {planner.cur}]
    /\ UNCHANGED <<codec, subnet, master,
                   base_address, SLASH_16_STATES, SLASH_32_STATES, disk, network>>

(* main.rs 108-129: reset the grid, build the futures in emission order,   *)
(* join_all polls each of them once.                                       *)
StartProbe ==
    /\ planner.pc = "probe"
    /\ LET granted == IF PING_PERMITS < NumTasks THEN PING_PERMITS ELSE NumTasks IN
       /\ tasks' = [k \in TaskIds |-> NewTask(k, granted)]
       /\ PING_PERMITS' = PING_PERMITS - granted
       /\ waiters' = waiters \o [j \in 1 .. NumTasks - granted |-> granted + j]
    /\ SLASH_32_STATES' = [c \in Octets24 |-> [d \in Octets32 |-> "Scheduled"]]
    /\ IDENTIFIER' = (IDENTIFIER + NumTasks) % U16_RANGE
    /\ SEQUENCE' = (SEQUENCE + NumTasks) % U16_RANGE
    /\ planner' = [planner EXCEPT !.pc = "join"]
    /\ hist' = [hist EXCEPT !.probed = @ \cup {planner.cur}]
    /\ UNCHANGED <<codec, subnet, master,
                   base_address, SLASH_16_STATES, disk, network>>

(***************************************************************************)
(* One ping future, ping.rs 72-135.                                        *)
(***************************************************************************)
Mark32(address, state) ==
    [SLASH_32_STATES EXCEPT ![address[3]][address[4]] = state]

(* Variant: the first echo request is sent without marking the cell. *)
Wake_NoPending(t) ==
    /\ tasks[t].pc = "stagger"
    /\ tasks' = [tasks EXCEPT ![t].pc = "attempt", ![t].retry_counter = 1,
                              ![t].sent = Append(@, <<tasks[t].i, tasks[t].s>>)]
    /\ UNCHANGED <<codec, subnet, master,
                   base_address, planner, SLASH_16_STATES, SLASH_32_STATES,
                   PING_PERMITS, waiters, IDENTIFIER, SEQUENCE, disk, network, hist>>

(* ping.rs 90-103: the stagger sleep ends, the cell becomes Pending and    *)
(* the first echo request is sent; sent lists the identifier and sequence  *)
(* number of every echo request of the task.                               *)
Wake(t) ==
    /\ tasks[t].pc = "stagger"
    /\ SLASH_32_STATES' = Mark32(tasks[t].address, "Pending")
    /\ tasks' = [tasks EXCEPT ![t].pc = "attempt", ![t].retry_counter = 1,
                              ![t].sent = Append(@, <<tasks[t].i, tasks[t].s>>)]
    /\ UNCHANGED <<codec, subnet, master,
                   base_address, planner, SLASH_16_STATES, PING_PERMITS, waiters,
                   IDENTIFIER, SEQUENCE, disk, network, hist>>

(* Variant: an Error outcome is shown as a Timeout. *)
StateOf_ErrorAsTimeout(result) ==
    CASE result.tag = "Success" -> "Success"
      [] result.tag = "Timeout" -> "Timeout"
      [] result.tag = "Error" -> "Timeout"

(* ping.rs 120-124 *)
StateOf(result) ==
    CASE result.tag = "Success" -> "Success"
      [] result.tag = "Timeout" -> "Timeout"
      [] result.tag = "Error" -> "Error"

(* ping.rs 118: drop(permit).  A released permit goes to the first waiter  *)
(* of the queue, which resumes after its acquire().await.                  *)
AfterDrop(t, done) ==
    IF waiters = <<>>
    THEN done
    ELSE [done EXCEPT ![Head(waiters)].pc = "stagger"]

(* Variant: the permit is dropped and the result returned, but the cell    *)
(* is not given its terminal state.                                        *)
Resolve_CellStaysPending(t, result) ==
    /\ tasks' = AfterDrop(t, [tasks EXCEPT ![t].pc = "done", ![t].result = result])
    /\ PING_PERMITS' = IF waiters = <<>> THEN PING_PERMITS + 1 ELSE PING_PERMITS
    /\ waiters' = IF waiters = <<>> THEN waiters ELSE Tail(waiters)
    /\ UNCHANGED SLASH_32_STATES

(* ping.rs 118-131: the attempt has an outcome. *)
Resolve(t, result) ==
    /\ tasks' = AfterDrop(t, [tasks EXCEPT ![t].pc = "done", ![t].result = result])
    /\ PING_PERMITS' = IF waiters = <<>> THEN PING_PERMITS + 1 ELSE PING_PERMITS
    /\ waiters' = IF waiters = <<>> THEN waiters ELSE Tail(waiters)
    /\ SLASH_32_STATES' = Mark32(tasks[t].address, StateOf(result))

(* ping.rs 101-103: what this attempt of task t gets from the network *)
Answer(t) == network[tasks[t].address[3]][tasks[t].address[4]][tasks[t].retry_counter]

(* ping.rs 105-106: Ok(Some(time)) *)
Reply(t) ==
    /\ tasks[t].pc = "attempt"
    /\ Answer(t).kind = "reply"
    /\ Resolve(t, Success(Answer(t).time))
    /\ UNCHANGED <<codec, subnet, master,
                   base_address, planner, SLASH_16_STATES, IDENTIFIER, SEQUENCE,
                   disk, network, hist>>

(* Variant: a timed-out attempt is retried like a transport error. *)
Expire_Retries(t) ==
    /\ tasks[t].pc = "attempt"
    /\ Answer(t).kind = "timeout"
    /\ IF tasks[t].retry_counter < RETRY_LIMIT
       THEN /\ tasks' = [tasks EXCEPT ![t].pc = "backoff"]
            /\ UNCHANGED <<PING_PERMITS, waiters, SLASH_32_STATES>>
       ELSE Resolve(t, Timeout)
    /\ UNCHANGED <<codec, subnet, master,
                   base_address, planner, SLASH_16_STATES, IDENTIFIER, SEQUENCE,
                   disk, network, hist>>

(* ping.rs 107: Ok(None), no reply within the timeout *)
Expire(t) ==
    /\ tasks[t].pc = "attempt"
    /\ Answer(t).kind = "timeout"
    /\ Resolve(t, Timeout)
    /\ UNCHANGED <<codec, subnet, master,
                   base_address, planner, SLASH_16_STATES, IDENTIFIER, SEQUENCE,
                   disk, network, hist>>

(* Variant: the Error outcome is returned without dropping the permit. *)
TransportError_KeepsPermit(t) ==
    /\ tasks[t].pc = "attempt"
    /\ Answer(t).kind = "error"
    /\ IF tasks[t].retry_counter < RETRY_LIMIT
       THEN /\ tasks' = [tasks EXCEPT ![t].pc = "backoff"]
            /\ UNCHANGED SLASH_32_STATES
       ELSE /\ tasks' = [tasks EXCEPT ![t].pc = "done", ![t].result = Error]
            /\ SLASH_32_STATES' = Mark32(tasks[t].address, "Error")
    /\ UNCHANGED <<codec, subnet, master, PING_PERMITS, waiters,
                   base_address, planner, SLASH_16_STATES, IDENTIFIER, SEQUENCE,
                   disk, network, hist>>

(* ping.rs 108-115: Err(_) *)
TransportError(t) ==
    /\ tasks[t].pc = "attempt"
    /\ Answer(t).kind = "error"
    /\ IF tasks[t].retry_counter < RETRY_LIMIT
       THEN /\ tasks' = [tasks EXCEPT ![t].pc = "backoff"]
            /\ UNCHANGED <<PING_PERMITS, waiters, SLASH_32_STATES>>
       ELSE Resolve(t, Error)
    /\ UNCHANGED <<codec, subnet, master,
                   base_address, planner, SLASH_16_STATES, IDENTIFIER, SEQUENCE,
                   disk, network, hist>>

(* Variant: a retry takes a fresh identifier and sequence number. *)
Retry_FreshIdentifier(t) ==
    /\ tasks[t].pc = "backoff"
    /\ tasks' = [tasks EXCEPT ![t].pc = "attempt", ![t].retry_counter = @ + 1,
                              ![t].sent = Append(@, <<IDENTIFIER, SEQUENCE>>)]
    /\ IDENTIFIER' = (IDENTIFIER + 1) % U16_RANGE
    /\ SEQUENCE' = (SEQUENCE + 1) % U16_RANGE
    /\ UNCHANGED <<codec, subnet, master,
                   base_address, planner, SLASH_16_STATES, SLASH_32_STATES,
                   PING_PERMITS, waiters, disk, network, hist>>

(* ping.rs 110-111 and 100-103: the sleep ends, the next attempt is sent *)
Retry(t) ==
    /\ tasks[t].pc = "backoff"
    /\ tasks' = [tasks EXCEPT ![t].pc = "attempt", ![t].retry_counter = @ + 1,
                              ![t].sent = Append(@, <<tasks[t].i, tasks[t].s>>)]
    /\ UNCHANGED <<codec, subnet, master,
                   base_address, planner, SLASH_16_STATES, SLASH_32_STATES,
                   PING_PERMITS, waiters, IDENTIFIER, SEQUENCE, disk, network, hist>>

(***************************************************************************)
(* Aggregation and save.                                                   *)
(***************************************************************************)
(* Variant: the results are read as if each /24 had been emitted whole. *)
Aggregate_RowMajor(ping_results) ==
    [c \in 1 .. N24 |->
        LET slash_24_result ==
                [d \in 1 .. N32 |-> ping_results[(c - 1) * N32 + (d - 1) + 1]]
        IN  IF \E d \in 1 .. N32 : slash_24_result[d] # Timeout
            THEN Some(slash_24_result)
            ELSE None]

(* main.rs 131-147; ping_results is indexed from 1 here *)
Aggregate(ping_results) ==
    [c \in 1 .. N24 |->
        LET slash_24_result ==
                [d \in 1 .. N32 |-> ping_results[(d - 1) * N24 + (c - 1) + 1]]
        IN  IF \E d \in 1 .. N32 : slash_24_result[d] # Timeout
            THEN Some(slash_24_result)
            ELSE None]

(* main.rs 129: join_all(slash_32s).await is ready *)
AllDone == \A t \in DOMAIN tasks : tasks[t].pc = "done"

(* main.rs 129-147 and file.rs 30-46: every future has resolved *)
JoinAll ==
    /\ planner.pc = "join"
    /\ AllDone
    /\ LET results == Aggregate([k \in DOMAIN tasks |-> tasks[k].result]) IN
       planner' = [planner EXCEPT !.pc = "create", !.results = results,
                      !.encoded = ZlibEncoder(serialize_slash_16(results))]
    /\ UNCHANGED <<codec, subnet, master,
                   base_address, SLASH_16_STATES, SLASH_32_STATES, PING_PERMITS,
                   waiters, tasks, IDENTIFIER, SEQUENCE, disk, network, hist>>

(* file.rs 50-56: create_dir_all and File::create, either of which may     *)
(* fail; main.rs 149 and 72 then return the error.                         *)
SaveCreate ==
    /\ planner.pc = "create"
    /\ \E ok \in BOOLEAN :
        IF ok
        THEN /\ disk' = [disk EXCEPT ![Cur] = File(<<>>)]
             /\ planner' = [planner EXCEPT !.pc = "write"]
        ELSE /\ planner' = [planner EXCEPT !.pc = "failed", !.cause = "save_error"]
             /\ UNCHANGED disk
    /\ UNCHANGED <<codec, subnet, master,
                   base_address, SLASH_16_STATES, SLASH_32_STATES, PING_PERMITS,
                   waiters, tasks, IDENTIFIER, SEQUENCE, network, hist>>

(* file.rs 57: write_all puts all the bytes, or fails after written of     *)
(* them; on success main.rs 73-86 marks the /16 Completed.                 *)
SaveWrite ==
    /\ planner.pc = "write"
    /\ \E written \in 0 .. Len(planner.encoded) :
        /\ disk' = [disk EXCEPT ![Cur] = File(SubSeq(planner.encoded, 1, written))]
        /\ IF written = Len(planner.encoded)
           THEN /\ planner' = [planner EXCEPT !.pc = "next", !.results = <<>>,
                                              !.encoded = <<>>]
                /\ SLASH_16_STATES' = Mark16(planner.cur, "Completed")
                /\ hist' = [hist EXCEPT !.completed = @ \cup {planner.cur}]
           ELSE /\ planner' = [planner EXCEPT !.pc = "failed", !.cause = "save_error"]
                /\ UNCHANGED <<SLASH_16_STATES, hist>>
    /\ UNCHANGED <<codec, subnet, master,
                   base_address, SLASH_32_STATES, PING_PERMITS, waiters, tasks,
                   IDENTIFIER, SEQUENCE, network>>

Next ==
    \/ PlannerNext
    \/ ReadSlash16
    \/ StartProbe
    \/ \E t \in DOMAIN tasks : Wake(t)
    \/ \E t \in DOMAIN tasks : Reply(t)
    \/ \E t \in DOMAIN tasks : Expire(t)
    \/ \E t \in DOMAIN tasks : TransportError(t)
    \/ \E t \in DOMAIN tasks : Retry(t)
    \/ JoinAll
    \/ SaveCreate
    \/ SaveWrite

Spec == Init /\ [][Next]_vars

(***************************************************************************)
(* The reducer, stats.rs: counts of a /16 result.  A /24 holds N32         *)
(* addresses here (256 in the program).                                    *)
(***************************************************************************)
(* stats.rs 30-37 *)
Analysis_new(mask) == [mask |-> mask, alive |-> 0, timed_out |-> 0, errored |-> 0]

(* stats.rs 113-117 *)
count_ping_result(anal, ping_result) ==
    CASE ping_result.tag = "Success" -> [anal EXCEPT !.alive = @ + 1]
      [] ping_result.tag = "Timeout" -> [anal EXCEPT !.timed_out = @ + 1]
      [] ping_result.tag = "Error" -> [anal EXCEPT !.errored = @ + 1]

(* stats.rs 112-118 *)
RECURSIVE count_slash_24(_, _)
count_slash_24(anal, slash_24) ==
    IF slash_24 = <<>> THEN anal
    ELSE count_slash_24(count_ping_result(anal, Head(slash_24)), Tail(slash_24))

(* Variant: an absent /24 adds nothing to the counts. *)
count_absent_slash_24_Nothing(anal) == anal

(* stats.rs 107-110: a /24 that is None *)
count_absent_slash_24(anal) == [anal EXCEPT !.errored = @ + N32]

(* stats.rs 106-119 *)
RECURSIVE count_slash_16(_, _)
count_slash_16(anal, results) ==
    IF results = <<>> THEN anal
    ELSE count_slash_16(
            IF Head(results).some
            THEN count_slash_24(anal, Head(results).val)
            ELSE count_absent_slash_24(anal),
            Tail(results))

(* stats.rs 103-122 *)
of_slash_16(results) == count_slash_16(Analysis_new(16), results)

(***************************************************************************)
(* The codec on its own: one outcome serialized and parsed back            *)
(* (ping.rs 30-69), or one /16 result saved and read back (file.rs).       *)
(* The inputs are drawn by CodecInit.                                      *)
(***************************************************************************)
CodecTimes ==
    {0, 700, 1000, 12000, 255999, 256000, 300500, 65535000, 65535999,
     65536000, 65548000, 131072000}

CodecRests == {<<>>, <<0>>, <<1, 2>>, <<7>>}

Tags == {"Success", "Timeout", "Error"}

Shapes == [1 .. N24 -> {None} \cup {Some(v) : v \in [1 .. N32 -> Tags]}]

Outcome(tag, time) ==
    CASE tag = "Success" -> Success(time)
      [] tag = "Timeout" -> Timeout
      [] tag = "Error" -> Error

Fill(shape, time) ==
    [c \in 1 .. N24 |->
        IF shape[c].some
        THEN Some([d \in 1 .. N32 |-> Outcome(shape[c].val[d], time)])
        ELSE None]

(* what the ping future of one address may return *)
PingOutcomes == {Success(700), Timeout, Error}

CodecInit ==
    /\ base_address = <<0, 0>>
    /\ planner = [pc |-> "next", cur |-> -1, results |-> <<>>, encoded |-> <<>>,
                  cause |-> "none"]
    /\ SLASH_16_STATES = [a \in Octets8 |-> [b \in Octets16 |-> "Scheduled"]]
    /\ SLASH_32_STATES = [c \in Octets24 |-> [d \in Octets32 |-> "Scheduled"]]
    /\ PING_PERMITS = Permits
    /\ waiters = <<>>
    /\ tasks = <<>>
    /\ IDENTIFIER = 0
    /\ SEQUENCE = 0
    /\ disk = [s \in Slash16s |-> NoFile]
    /\ network = [c \in Octets24 |-> [d \in Octets32 |-> Silent]]
    /\ hist = [disk0 |-> disk, probed |-> {}, completed |-> {}, read |-> "none"]
    /\ subnet = SubnetIdle
    /\ master = MasterIdle
    /\ \/ \E tag \in Tags, time \in CodecTimes, rest \in CodecRests :
            codec = [CodecIdle EXCEPT !.op = "outcome", !.stage = "input",
                                      !.r = Outcome(tag, time), !.rest = rest]
       \/ \E shape \in Shapes, time \in CodecTimes :
            codec = [CodecIdle EXCEPT !.op = "slash16", !.stage = "input",
                                      !.r = Fill(shape, time)]
       \/ \E outcomes \in [Octets24 -> [Octets32 -> PingOutcomes]] :
            codec = [CodecIdle EXCEPT !.op = "aggregate", !.stage = "input",
                                      !.r = outcomes]

System == <<base_address, planner, SLASH_16_STATES, SLASH_32_STATES, PING_PERMITS,
            waiters, tasks, IDENTIFIER, SEQUENCE, disk, network, hist>>

(* ping.rs 30-46 *)
CodecSerialize ==
    /\ codec.op = "outcome" /\ codec.stage = "input"
    /\ codec' = [codec EXCEPT !.stage = "encoded", !.bytes = serialize_into(codec.r)]
    /\ UNCHANGED <<System, subnet, master>>

(* ping.rs 48-69, on the serialized outcome followed by further input *)
CodecParse ==
    /\ codec.op = "outcome" /\ codec.stage = "encoded"
    /\ codec' = [codec EXCEPT !.stage = "decoded",
                              !.out = parse_from_bytes(codec.bytes \o codec.rest)]
    /\ UNCHANGED <<System, subnet, master>>

(* file.rs 21-60, every write succeeding: the bytes of the file *)
CodecSave ==
    /\ codec.op = "slash16" /\ codec.stage = "input"
    /\ codec' = [codec EXCEPT !.stage = "encoded",
                              !.bytes = ZlibEncoder(serialize_slash_16(codec.r))]
    /\ UNCHANGED <<System, subnet, master>>

(* file.rs 66-97 on the file just saved *)
CodecRead ==
    /\ codec.op = "slash16" /\ codec.stage = "encoded"
    /\ codec' = [codec EXCEPT !.stage = "decoded",
                              !.out = read_slash_16(File(codec.bytes), TRUE)]
    /\ UNCHANGED <<System, subnet, master>>

(* stats.rs 66-73 and 103-122: the counts of the /16 result *)
CodecAnalyse ==
    /\ codec.op = "slash16" /\ codec.stage = "input"
    /\ codec' = [codec EXCEPT !.stage = "analysed", !.out = of_slash_16(codec.r)]
    /\ UNCHANGED <<System, subnet, master>>

(* main.rs 129-147: join_all gives the outcomes in the order the futures   *)
(* were emitted; codec.r holds the outcome of each address of the /16      *)
CodecAggregate ==
    /\ codec.op = "aggregate" /\ codec.stage = "input"
    /\ LET ping_results ==
               [k \in TaskIds |-> codec.r[slash_32s[k][1]][slash_32s[k][2]]]
       IN  codec' = [codec EXCEPT !.stage = "aggregated",
                                  !.out = Aggregate(ping_results)]
    /\ UNCHANGED <<System, subnet, master>>

CodecNext ==
    \/ CodecSerialize
    \/ CodecParse
    \/ CodecSave
    \/ CodecRead
    \/ CodecAnalyse
    \/ CodecAggregate

CodecSpec == CodecInit /\ [][CodecNext]_vars

(***************************************************************************)
(* Subnet (src/ping-worker/src/subnet.rs; iter_addresses from               *)
(* src/src/subnet.rs).  A mask is its number of bits; a text is a sequence *)
(* of characters; a u32 is the pair of its 16-bit halves <<high, low>>.    *)
(***************************************************************************)
SubnetMasks == {0, 8, 16, 24, 32}

NoSubnet == [base_address |-> <<>>, mask |-> -1]

Ok(value) == [kind |-> "ok", value |-> value]
Err == [kind |-> "err", value |-> <<>>]
Panic == [kind |-> "panic", value |-> <<>>]

(* Variant: new takes any base address. *)
Subnet_new_Unchecked(base, mask) ==
    Ok([base_address |-> base, mask |-> mask])

(* subnet.rs 31-43 *)
Subnet_new(base, mask) ==
    LET octets == base IN
    IF CASE mask = 0 -> octets = <<0, 0, 0, 0>>
         [] mask = 8 -> SubSeq(octets, 2, 4) = <<0, 0, 0>>
         [] mask = 16 -> SubSeq(octets, 3, 4) = <<0, 0>>
         [] mask = 24 -> SubSeq(octets, 4, 4) = <<0>>
         [] mask = 32 -> TRUE
    THEN Ok([base_address |-> base, mask |-> mask])
    ELSE Panic

(* subnet.rs 59-66 *)
Subnet_default == [base_address |-> <<0, 0, 0, 0>>, mask |-> 0]

Digits == <<"0", "1", "2", "3", "4", "5", "6", "7", "8", "9">>

(* u8 as decimal text, as {} formats it *)
to_string(n) ==
    IF n < 10 THEN <<Digits[n + 1]>>
    ELSE IF n < 100 THEN <<Digits[(n \div 10) + 1], Digits[(n % 10) + 1]>>
    ELSE <<Digits[(n \div 100) + 1], Digits[((n \div 10) % 10) + 1], Digits[(n % 10) + 1]>>

(* Variant: every octet is written, wildcards never. *)
fmt_AllOctets(self) ==
    LET octets == self.base_address IN
    to_string(octets[1]) \o <<".">> \o to_string(octets[2]) \o <<".">>
        \o to_string(octets[3]) \o <<".">> \o to_string(octets[4])

(* subnet.rs 76-90 *)
fmt(self) ==
    LET octets == self.base_address IN
    CASE self.mask = 0 -> <<"x", ".", "x", ".", "x", ".", "x">>
      [] self.mask = 8 -> to_string(octets[1]) \o <<".", "x", ".", "x", ".", "x">>
      [] self.mask = 16 ->
            to_string(octets[1]) \o <<".">> \o to_string(octets[2]) \o <<".", "x", ".", "x">>
      [] self.mask = 24 ->
            to_string(octets[1]) \o <<".">> \o to_string(octets[2]) \o <<".">>
                \o to_string(octets[3]) \o <<".", "x">>
      [] self.mask = 32 ->
            to_string(octets[1]) \o <<".">> \o to_string(octets[2]) \o <<".">>
                \o to_string(octets[3]) \o <<".">> \o to_string(octets[4])

IsDigit(c) == \E i \in 1 .. 10 : Digits[i] = c
DigitValue(c) == (CHOOSE i \in 1 .. 10 : Digits[i] = c) - 1

(* take_while(is_ascii_digit): the length of the leading run of digits *)
RECURSIVE take_while_digits(_)
take_while_digits(input) ==
    IF input # <<>> /\ IsDigit(Head(input))
    THEN 1 + take_while_digits(Tail(input))
    ELSE 0

(* str::parse::<u8>: none for the empty text and for a value above 255 *)
RECURSIVE parse_u8_from(_, _)
parse_u8_from(acc, int) ==
    IF int = <<>> THEN Some(acc)
    ELSE LET next == acc * 10 + DigitValue(Head(int)) IN
         IF next > 255 THEN None ELSE parse_u8_from(next, Tail(int))
parse_u8(int) == IF int = <<>> THEN None ELSE parse_u8_from(0, int)

ByteBlock_WildCard == [wild |-> TRUE, int |-> 0]
ByteBlock_Int(n) == [wild |-> FALSE, int |-> n]

BlockOk(input, block) == [kind |-> "ok", input |-> input, value |-> block]
BlocksErr == [kind |-> "err", input |-> <<>>, value |-> <<>>]
BlocksPanic == [kind |-> "panic", input |-> <<>>, value |-> <<>>]

(* subnet.rs 142-149 *)
parse_byte_block(input) ==
    IF input # <<>> /\ Head(input) = "x"
    THEN BlockOk(Tail(input), ByteBlock_WildCard)
    ELSE LET n == take_while_digits(input)
             int == parse_u8(SubSeq(input, 1, n))
         IN  IF int.some
             THEN BlockOk(SubSeq(input, n + 1, Len(input)), ByteBlock_Int(int.val))
             ELSE BlocksPanic

(* tag(".") *)
tag_dot(input) ==
    IF input # <<>> /\ Head(input) = "."
    THEN BlockOk(Tail(input), <<>>)
    ELSE BlocksErr

(* subnet.rs 128-140: block, ".", block, ".", block, ".", block *)
RECURSIVE parse_byte_blocks_from(_, _)
parse_byte_blocks_from(input, blocks) ==
    LET block == parse_byte_block(input) IN
    IF block.kind # "ok" THEN block
    ELSE IF Len(blocks) = 3 THEN BlockOk(block.input, Append(blocks, block.value))
    ELSE LET dot == tag_dot(block.input) IN
         IF dot.kind # "ok" THEN dot
         ELSE parse_byte_blocks_from(dot.input, Append(blocks, block.value))
parse_byte_blocks(input) == parse_byte_blocks_from(input, <<>>)

(* subnet.rs 97-120 *)
from_str(input) ==
    LET parsed == parse_byte_blocks(input) IN
    IF parsed.kind = "panic" THEN Panic
    ELSE IF parsed.kind = "err" THEN Err
    ELSE IF parsed.input # <<>> THEN Panic
    ELSE LET blocks == parsed.value
             wild == [i \in 1 .. 4 |-> blocks[i].wild]
             a == blocks[1].int
             b == blocks[2].int
             c == blocks[3].int
             d == blocks[4].int
         IN  CASE wild = <<TRUE, TRUE, TRUE, TRUE>> -> Subnet_new(<<0, 0, 0, 0>>, 0)
               [] wild = <<FALSE, TRUE, TRUE, TRUE>> -> Subnet_new(<<a, 0, 0, 0>>, 8)
               [] wild = <<FALSE, FALSE, TRUE, TRUE>> -> Subnet_new(<<a, b, 0, 0>>, 16)
               [] wild = <<FALSE, FALSE, FALSE, TRUE>> -> Subnet_new(<<a, b, c, 0>>, 24)
               [] wild = <<FALSE, FALSE, FALSE, FALSE>> -> Subnet_new(<<a, b, c, d>>, 32)
               [] OTHER -> Err

NoIterator == [base_subnet |-> NoSubnet, range |-> 0]

(* subnet.rs 157-162: range is the next value of 0..=255 *)
SubnetIterator_new(base_subnet) == [base_subnet |-> base_subnet, range |-> 0]

(* subnet.rs 168-190: the item, none at the end, and the iterator after it *)
SubnetIterator_next(self) ==
    IF self.base_subnet.mask = 32 \/ self.range > 255
    THEN [item |-> Ok(None), iter |-> self]
    ELSE LET new_class == self.base_subnet.mask + 8
             idx == new_class \div 8
             octets == [self.base_subnet.base_address EXCEPT ![idx] = self.range]
             made == Subnet_new(octets, new_class)
         IN  [item |-> IF made.kind = "ok" THEN Ok(Some(made.value)) ELSE Panic,
              iter |-> [self EXCEPT !.range = @ + 1]]

(* u32 arithmetic on <<high, low>>: the wrapped value and whether it overflowed *)
u32_from_be_bytes(octets) == <<octets[1] * 256 + octets[2], octets[3] * 256 + octets[4]>>
u32_to_be_bytes(x) == <<x[1] \div 256, x[1] % 256, x[2] \div 256, x[2] % 256>>
u32_pow2(power) ==
    IF power >= 32 THEN [value |-> <<0, 0>>, overflow |-> TRUE]
    ELSE IF power >= 16 THEN [value |-> <<2 ^ (power - 16), 0>>, overflow |-> FALSE]
    ELSE [value |-> <<0, 2 ^ power>>, overflow |-> FALSE]
u32_add(x, y) ==
    LET low == x[2] + y[2]
        high == x[1] + y[1] + (low \div 65536)
    IN  [value |-> <<high % 65536, low % 65536>>, overflow |-> high >= 65536]
u32_sub(x, y) ==
    LET low == x[2] - y[2]
        borrow == IF low < 0 THEN 1 ELSE 0
        high == x[1] - y[1] - borrow
    IN  [value |-> <<high % 65536, low % 65536>>, overflow |-> high < 0]

(* src/src/subnet.rs 73-86: the first and last address of start..=end.     *)
(* An overflowing operation panics in a build with overflow checks and     *)
(* wraps in a build without them.                                          *)
iter_addresses(self, overflow_checks) ==
    LET start == u32_from_be_bytes(self.base_address)
        length == u32_pow2(32 - self.mask)
        sum == u32_add(start, length.value)
        end == u32_sub(sum.value, <<0, 1>>)
        overflowed == length.overflow \/ sum.overflow \/ end.overflow
    IN  IF overflowed /\ overflow_checks THEN Panic
        ELSE Ok([first |-> u32_to_be_bytes(start), last |-> u32_to_be_bytes(end.value),
                 overflowed |-> overflowed])

(* Inputs: octets with one, two and three digits; texts of four blocks and *)
(* a few that are not.                                                     *)
SubnetOctets == {0, 10, 255}
BaseAddresses == SubnetOctets \X SubnetOctets \X SubnetOctets \X SubnetOctets
BlockTexts == {<<"x">>} \cup {to_string(o) : o \in SubnetOctets}
FourBlockTexts ==
    {t[1] \o <<".">> \o t[2] \o <<".">> \o t[3] \o <<".">> \o t[4] :
        t \in BlockTexts \X BlockTexts \X BlockTexts \X BlockTexts}
OtherTexts ==
    { <<"2", "5", "6", ".", "x", ".", "x", ".", "x">>,
      <<"1", ".", "2", ".", "3">>,
      <<"1", ".", "2", ".", "3", ".">>,
      <<"1", ".", "2", ".", "3", ".", "4", "x">>,
      <<>> }
Texts == FourBlockTexts \cup OtherTexts

SubnetStart ==
    [stage |-> "start", how |-> "none", input |-> <<>>, value |-> NoSubnet,
     parent |-> NoSubnet, iter |-> NoIterator, out |-> <<>>]

SubnetInit ==
    /\ base_address = <<0, 0>>
    /\ planner = [pc |-> "next", cur |-> -1, results |-> <<>>, encoded |-> <<>>,
                  cause |-> "none"]
    /\ SLASH_16_STATES = [a \in Octets8 |-> [b \in Octets16 |-> "Scheduled"]]
    /\ SLASH_32_STATES = [c \in Octets24 |-> [d \in Octets32 |-> "Scheduled"]]
    /\ PING_PERMITS = Permits
    /\ waiters = <<>>
    /\ tasks = <<>>
    /\ IDENTIFIER = 0
    /\ SEQUENCE = 0
    /\ disk = [s \in Slash16s |-> NoFile]
    /\ network = [c \in Octets24 |-> [d \in Octets32 |-> Silent]]
    /\ hist = [disk0 |-> disk, probed |-> {}, completed |-> {}, read |-> "none"]
    /\ codec = CodecIdle
    /\ master = MasterIdle
    /\ subnet = SubnetStart

Made(how, input, r) ==
    CASE r.kind = "ok" ->
            [SubnetStart EXCEPT !.stage = "value", !.how = how, !.input = input,
                                !.value = r.value]
      [] r.kind = "err" ->
            [SubnetStart EXCEPT !.stage = "error", !.how = how, !.input = input]
      [] r.kind = "panic" ->
            [SubnetStart EXCEPT !.stage = "panicked", !.how = how, !.input = input]

(* Subnet::new on a base address and a mask *)
SubnetNew ==
    /\ subnet.stage = "start"
    /\ \E base \in BaseAddresses, mask \in SubnetMasks :
          subnet' = Made("new", <<base, mask>>, Subnet_new(base, mask))
    /\ UNCHANGED <<System, codec, master>>

(* Subnet::default() *)
SubnetDefault ==
    /\ subnet.stage = "start"
    /\ subnet' = Made("default", <<>>, Ok(Subnet_default))
    /\ UNCHANGED <<System, codec, master>>

(* text.parse::<Subnet>() *)
SubnetParse ==
    /\ subnet.stage = "start"
    /\ \E text \in Texts : subnet' = Made("parse", text, from_str(text))
    /\ UNCHANGED <<System, codec, master>>

(* value.iter_subnets(), subnet.rs 54-56 *)
SubnetIterSubnets ==
    /\ subnet.stage \in {"value", "iterating"}
    /\ \A i \in 1 .. 4 : subnet.value.base_address[i] \in SubnetOctets
    /\ subnet' = [SubnetStart EXCEPT !.stage = "iterating", !.how = "iter_subnets",
                                     !.value = subnet.value,
                                     !.iter = SubnetIterator_new(subnet.value)]
    /\ UNCHANGED <<System, codec, master>>

(* iterator.next(), subnet.rs 168-190 *)
SubnetIteratorNext ==
    /\ subnet.stage = "iterating"
    /\ LET r == SubnetIterator_next(subnet.iter) IN
       subnet' =
          CASE r.item.kind = "panic" -> [subnet EXCEPT !.stage = "panicked", !.iter = r.iter]
            [] r.item.kind = "ok" /\ ~r.item.value.some ->
                  [subnet EXCEPT !.stage = "exhausted", !.how = "child",
                                 !.value = NoSubnet, !.parent = subnet.iter.base_subnet]
            [] r.item.kind = "ok" /\ r.item.value.some ->
                  [subnet EXCEPT !.how = "child", !.value = r.item.value.val,
                                 !.parent = subnet.iter.base_subnet, !.iter = r.iter]
    /\ UNCHANGED <<System, codec, master>>

(* format!("{value}"), subnet.rs 76-90 *)
SubnetFormat ==
    /\ subnet.stage = "value"
    /\ subnet' = [subnet EXCEPT !.stage = "formatted", !.out = fmt(subnet.value)]
    /\ UNCHANGED <<System, codec, master>>

(* value.iter_addresses(), src/src/subnet.rs 73-86 *)
SubnetIterAddresses ==
    /\ subnet.stage = "value"
    /\ \E overflow_checks \in BOOLEAN :
          subnet' = [subnet EXCEPT !.stage = "addresses",
                                   !.out = iter_addresses(subnet.value, overflow_checks)]
    /\ UNCHANGED <<System, codec, master>>

SubnetNext ==
    \/ SubnetNew
    \/ SubnetDefault
    \/ SubnetParse
    \/ SubnetIterSubnets
    \/ SubnetIteratorNext
    \/ SubnetFormat
    \/ SubnetIterAddresses

SubnetSpec == SubnetInit /\ [][SubnetNext]_vars

(***************************************************************************)
(* The master (src/ping-master/src/main.rs): init starts one blocking      *)
(* thread per worker, which binds a socket, spawns the worker, accepts its *)
(* connection and then forwards the W2M messages it reads to a channel;    *)
(* init waits for every connection and starts the W2M handler.  The worker *)
(* process is the other end of the socket: it connects, writes, closes.    *)
(***************************************************************************)
MaxWorkers == 2
MaxWrites == 3

(* main.rs 82: format!("./sockets/{}.sock", id) *)
socket_path(id) == <<"./sockets/">> \o to_string(id) \o <<".sock">>

(* ping-proto lib.rs 46-49: the k-th StateChanged of the worker probing a.x.x.x *)
StateChanged(a, k) == [addr |-> a, state |-> k]
NoMessage == [addr |-> -1, state |-> -1]

Token(t, v) == [t |-> t, v |-> v]
Garbage == Token("garbage", NoMessage)

(* serde_json::to_writer: one JSON value on the stream *)
to_writer(message) ==
    <<Token("open", NoMessage), Token("body", message), Token("close", NoMessage)>>

(* StreamDeserializer::next, main.rs 142-147: the next value of the stream, *)
(* an error, the end of the stream, or nothing yet                          *)
Deserialized(kind, message, rest) == [kind |-> kind, message |-> message, rest |-> rest]
StreamDeserializer_next(stream, closed) ==
    IF stream = <<>>
    THEN Deserialized(IF closed THEN "end" ELSE "blocked", NoMessage, stream)
    ELSE IF Head(stream).t # "open" THEN Deserialized("error", NoMessage, stream)
    ELSE IF Len(stream) < 3
         THEN Deserialized(IF closed THEN "error" ELSE "blocked", NoMessage, stream)
    ELSE IF stream[2].t = "body" /\ stream[3].t = "close"
         THEN Deserialized("value", stream[2].v, SubSeq(stream, 4, Len(stream)))
    ELSE Deserialized("error", NoMessage, stream)

(* Variant: the channel hands out the newest message first. *)
send_Newest(channel, item) == <<item>> \o channel

(* main.rs 149: UnboundedSender::send *)
send(channel, item) == Append(channel, item)

Ids == 0 .. master.count - 1

MasterStart(count) ==
    [count |-> count,
     process |-> "running",
     main |-> [pc |-> "init", id |-> 0],
     handler |-> "none",
     threads |-> [id \in 0 .. MaxWorkers - 1 |-> "none"],
     connect |-> [id \in 0 .. MaxWorkers - 1 |-> "none"],
     listeners |-> {},
     backlog |-> {},
     accepts |-> [id \in 0 .. MaxWorkers - 1 |-> 0],
     workers |-> [id \in 0 .. MaxWorkers - 1 |->
                     [state |-> "none", socket |-> <<>>, written |-> <<>>]],
     stream |-> [id \in 0 .. MaxWorkers - 1 |-> <<>>],
     w2m |-> <<>>,
     handled |-> <<>>]

MasterInit ==
    /\ base_address = <<0, 0>>
    /\ planner = [pc |-> "next", cur |-> -1, results |-> <<>>, encoded |-> <<>>,
                  cause |-> "none"]
    /\ SLASH_16_STATES = [a \in Octets8 |-> [b \in Octets16 |-> "Scheduled"]]
    /\ SLASH_32_STATES = [c \in Octets24 |-> [d \in Octets32 |-> "Scheduled"]]
    /\ PING_PERMITS = Permits
    /\ waiters = <<>>
    /\ tasks = <<>>
    /\ IDENTIFIER = 0
    /\ SEQUENCE = 0
    /\ disk = [s \in Slash16s |-> NoFile]
    /\ network = [c \in Octets24 |-> [d \in Octets32 |-> Silent]]
    /\ hist = [disk0 |-> disk, probed |-> {}, completed |-> {}, read |-> "none"]
    /\ codec = CodecIdle
    /\ subnet = SubnetIdle
    /\ \E count \in 0 .. MaxWorkers : master = MasterStart(count)

Running == master.process = "running"

(* main.rs 73-79: the next turn of the loop starts the thread of worker id *)
MainSpawnBlocking ==
    /\ Running
    /\ master.main.pc = "init" /\ master.main.id < master.count
    /\ master' = [master EXCEPT !.threads[master.main.id] = "created",
                                !.connect[master.main.id] = "pending",
                                !.main.id = @ + 1]
    /\ UNCHANGED <<System, codec, subnet>>

(* main.rs 82-93: create the directory and bind the listener, or exit *)
ThreadBind(id) ==
    /\ Running
    /\ master.threads[id] = "created"
    /\ \E ok \in BOOLEAN :
          master' = IF ok
                    THEN [master EXCEPT !.threads[id] = "bound",
                                        !.listeners = @ \cup {socket_path(id)}]
                    ELSE [master EXCEPT !.process = "exited"]
    /\ UNCHANGED <<System, codec, subnet>>

(* main.rs 97-107: spawn the worker with the socket path, or panic; the    *)
(* panic drops connect_sender                                              *)
ThreadSpawnWorker(id) ==
    /\ Running
    /\ master.threads[id] = "bound"
    /\ \E ok \in BOOLEAN :
          master' = IF ok
                    THEN [master EXCEPT !.threads[id] = "spawned",
                                        !.workers[id].state = "spawned",
                                        !.workers[id].socket = socket_path(id)]
                    ELSE [master EXCEPT !.threads[id] = "panicked",
                                        !.connect[id] = "dropped"]
    /\ UNCHANGED <<System, codec, subnet>>

(* The worker connects to the socket it was given. *)
WorkerConnect(w) ==
    /\ Running
    /\ master.workers[w].state = "spawned"
    /\ master.workers[w].socket \in master.listeners
    /\ master' = [master EXCEPT !.workers[w].state = "connected",
                                !.backlog = @ \cup {master.workers[w].socket}]
    /\ UNCHANGED <<System, codec, subnet>>

(* main.rs 111-138: accept the connection, or exit; split the stream,      *)
(* start the M2W writer, hand the M2W sender to init                       *)
ThreadAccept(id) ==
    /\ Running
    /\ master.threads[id] = "spawned"
    /\ socket_path(id) \in master.backlog
    /\ \E ok \in BOOLEAN :
          master' = IF ok
                    THEN [master EXCEPT !.threads[id] = "reading",
                                        !.backlog = @ \ {socket_path(id)},
                                        !.accepts[id] = @ + 1,
                                        !.connect[id] = "sent"]
                    ELSE [master EXCEPT !.process = "exited"]
    /\ UNCHANGED <<System, codec, subnet>>

(* The number of writes of the workers up to id *)
RECURSIVE Writes(_)
Writes(id) == IF id < 0 THEN 0 ELSE Len(master.workers[id].written) + Writes(id - 1)

(* The worker writes its next message, or bytes that are no message (and   *)
(* then nothing more); the workers make MaxWrites writes between them.     *)
WorkerWrite(w) ==
    /\ Running
    /\ master.workers[w].state = "connected"
    /\ Writes(MaxWorkers - 1) < MaxWrites
    /\ \A i \in 1 .. Len(master.workers[w].written) :
          master.workers[w].written[i] # NoMessage
    /\ \E valid \in BOOLEAN :
          LET message == StateChanged(w, Len(master.workers[w].written) + 1) IN
          master' = IF valid
                    THEN [master EXCEPT !.workers[w].written = Append(@, message),
                                        !.stream[w] = @ \o to_writer(message)]
                    ELSE [master EXCEPT !.workers[w].written = Append(@, NoMessage),
                                        !.stream[w] = Append(@, Garbage)]
    /\ UNCHANGED <<System, codec, subnet>>

(* The worker closes its end of the socket (or exits). *)
WorkerClose(w) ==
    /\ Running
    /\ master.workers[w].state = "connected"
    /\ master' = [master EXCEPT !.workers[w].state = "closed"]
    /\ UNCHANGED <<System, codec, subnet>>

(* main.rs 144-153: one turn of the reader's loop.  A message goes to the  *)
(* channel (the send panics when the receiver is gone); an undecodable     *)
(* message or the end of the stream ends the loop and the process exits.   *)
ThreadRead(id) ==
    /\ Running
    /\ master.threads[id] = "reading"
    /\ LET next == StreamDeserializer_next(master.stream[id],
                                           master.workers[id].state = "closed")
       IN  /\ next.kind # "blocked"
           /\ master' =
                 IF next.kind = "value"
                 THEN IF master.handler = "cancelled"
                      THEN [master EXCEPT !.threads[id] = "panicked",
                                          !.stream[id] = next.rest]
                      ELSE [master EXCEPT !.stream[id] = next.rest,
                                          !.w2m = send(@, <<id, next.message>>)]
                 ELSE [master EXCEPT !.threads[id] = "disconnected",
                                     !.process = "exited"]
    /\ UNCHANGED <<System, codec, subnet>>

(* Variant: init goes on as soon as one worker has connected. *)
join_all_ready_Any == master.count = 0 \/ \E id \in Ids : master.connect[id] = "sent"

(* main.rs 160-161: every connect receiver has its sender, or lost it *)
join_all_ready == \A id \in Ids : master.connect[id] \in {"sent", "dropped"}

(* main.rs 160-172: all the receivers have resolved; a lost sender makes   *)
(* the unwrap panic; otherwise the W2M handler is started                  *)
MainJoinAll ==
    /\ Running
    /\ master.main.pc = "init" /\ master.main.id = master.count
    /\ join_all_ready
    /\ master' = IF \E id \in Ids : master.connect[id] = "dropped"
                 THEN [master EXCEPT !.main.pc = "panicked", !.process = "panicked"]
                 ELSE [master EXCEPT !.main.pc = "handler", !.handler = "running"]
    /\ UNCHANGED <<System, codec, subnet>>

(* main.rs 169-171: the handler takes the next message from the channel *)
HandlerRecv ==
    /\ Running
    /\ master.handler = "running"
    /\ master.w2m # <<>>
    /\ master' = [master EXCEPT !.w2m = Tail(@), !.handled = Append(@, Head(master.w2m))]
    /\ UNCHANGED <<System, codec, subnet>>

(* main.rs 174 and 42-52: init returns Ok, main ends and drops the         *)
(* runtime: the handler task is dropped with its receiver; the drop then   *)
(* waits for the blocking threads                                          *)
MainReturn ==
    /\ Running
    /\ master.main.pc = "handler"
    /\ master' = [master EXCEPT !.main.pc = "returned", !.handler = "cancelled",
                                !.w2m = <<>>]
    /\ UNCHANGED <<System, codec, subnet>>

MasterNext ==
    \/ MainSpawnBlocking
    \/ \E id \in Ids : ThreadBind(id)
    \/ \E id \in Ids : ThreadSpawnWorker(id)
    \/ \E w \in Ids : WorkerConnect(w)
    \/ \E id \in Ids : ThreadAccept(id)
    \/ \E w \in Ids : WorkerWrite(w)
    \/ \E w \in Ids : WorkerClose(w)
    \/ \E id \in Ids : ThreadRead(id)
    \/ MainJoinAll
    \/ HandlerRecv
    \/ MainReturn

MasterSpec == MasterInit /\ [][MasterNext]_vars

(***************************************************************************)
(* Properties.                                                             *)
(***************************************************************************)
Pending32 ==
    {cell \in Octets24 \X Octets32 : SLASH_32_STATES[cell[1]][cell[2]] = "Pending"}
Pending16 ==
    {s \in Slash16s : SLASH_16_STATES[s[1]][s[2]] = "Pending"}
Queued == {t \in DOMAIN tasks : tasks[t].pc = "queued"}
Slash16Of(n) == <<OctetA(n), OctetB(n)>>
State16(n) == SLASH_16_STATES[OctetA(n)][OctetB(n)]
Indices == 0 .. NA * NB - 1

(* C1: in every reachable state the number of ping tasks that have         *)
(* acquired a permit and not yet released it is at most the pool size.     *)
C1_HoldersWithinPool == Cardinality(Holders) <= Permits

(* C1 witness: the pool is exhausted while further tasks wait for a permit *)
C1_PoolExhausted == Cardinality(Holders) = Permits /\ Queued # {}

(* C2: the number of Slash32 grid cells that are Pending never exceeds     *)
(* the pool size.                                                          *)
C2_PendingWithinPool == Cardinality(Pending32) <= Permits

(* C2 witness: as many cells Pending as there are permits, with tasks      *)
(* still waiting, after a first task has resolved and handed on its permit *)
C2_PendingAtPool ==
    /\ Cardinality(Pending32) = Permits
    /\ Queued # {}
    /\ \E t \in DOMAIN tasks : tasks[t].pc = "done"

(* C3: the planner is sequential across /16s: at most one /16 is Pending;  *)
(* every unresolved ping task belongs to the /16 the planner is waiting on *)
(* which is the Pending one; and when a /16 is Pending every candidate     *)
(* before it has left Pending for Completed or Skipped.                    *)
C3_SequentialSlash16s ==
    /\ Cardinality(Pending16) <= 1
    /\ \A t \in DOMAIN tasks :
          tasks[t].pc # "done" =>
              /\ planner.pc = "join"
              /\ <<tasks[t].address[1], tasks[t].address[2]>> = Cur
              /\ State16(planner.cur) = "Pending"
    /\ \A n \in Indices :
          State16(n) = "Pending" =>
              \A m \in 0 .. n - 1 :
                  IsCandidate(m) => State16(m) \in {"Completed", "Skipped"}

(* C3 witness: the tasks of a second probed /16 are running *)
C3_SecondProbeRunning ==
    /\ Cardinality(hist.probed) >= 2
    /\ \E t \in DOMAIN tasks : Holding(t)

Reached(n) == planner.cur > n \/ (planner.cur = n /\ planner.pc # "read")
FoundDecodable(n) ==
    /\ hist.disk0[Slash16Of(n)].exists
    /\ read_bytes(hist.disk0[Slash16Of(n)].bytes).kind = "some"
ReadFailedAt(n) == planner.cur = n /\ planner.cause = "read_error"

(* C4: a candidate /16 whose file exists and decodes when the planner      *)
(* reaches it ends Skipped, has no ping task started, and keeps its file.  *)
C4_ExistingResultSkipped ==
    \A n \in Indices :
        (IsCandidate(n) /\ Reached(n) /\ FoundDecodable(n) /\ ~ReadFailedAt(n)) =>
            /\ State16(n) = "Skipped"
            /\ n \notin hist.probed
            /\ disk[Slash16Of(n)] = hist.disk0[Slash16Of(n)]

(* C4 witness: the start /16 was skipped and the planner went on to probe  *)
(* the next one                                                            *)
C4_SkippedThenProbing ==
    /\ SLASH_16_STATES[base_address[1]][base_address[2]] = "Skipped"
    /\ hist.probed # {}

(* C5: when persisting a /16 fails, the planner marks that /16 Errored and *)
(* goes on with the next /16; the error does not stop the sweep.           *)
C5_SaveErrorDoesNotStopSweep ==
    planner.cause = "save_error" =>
        /\ State16(planner.cur) = "Errored"
        /\ planner.pc # "failed"

(* C6: outside a running save, the result file of a /16 exists exactly     *)
(* when a probe of that /16 has completed at least once (in this run, or   *)
(* before it, for a file found at the start).                              *)
C6_FileIffCompleted ==
    \A n \in Indices :
        ~(planner.cur = n /\ planner.pc = "write") =>
            (disk[Slash16Of(n)].exists <=>
                (n \in hist.completed \/ hist.disk0[Slash16Of(n)].exists))

FoundMalformed(n) ==
    /\ hist.disk0[Slash16Of(n)].exists
    /\ read_bytes(hist.disk0[Slash16Of(n)].bytes).kind \in {"io_error", "none"}

(* C7: a file that is present but malformed (cut short, not a deflate      *)
(* stream, bad tag, too short after inflation) is treated like a missing   *)
(* file: the planner does not crash and probes the /16 again.              *)
C7_MalformedTreatedAsMissing ==
    \A n \in Indices :
        (IsCandidate(n) /\ Reached(n) /\ FoundMalformed(n) /\ ~ReadFailedAt(n)) =>
            /\ ~(planner.cur = n /\ planner.pc = "panicked")
            /\ (planner.cur = n /\ planner.pc = "probe") \/ n \in hist.probed

Script(t) == network[tasks[t].address[3]][tasks[t].address[4]]

(* C8: a probe makes at most RETRY_LIMIT attempts; every attempt before    *)
(* the current one ended in a transport error (a timeout or a reply is     *)
(* never retried); a reply ends the probe with Success, a timeout with     *)
(* Timeout; Error is returned only after RETRY_LIMIT transport errors.     *)
C8_OnlyTransportErrorsRetried ==
    \A t \in DOMAIN tasks :
        LET rc == tasks[t].retry_counter IN
        /\ rc <= RETRY_LIMIT
        /\ \A k \in 1 .. rc - 1 : Script(t)[k].kind = "error"
        /\ tasks[t].pc = "backoff" => Script(t)[rc].kind = "error" /\ rc < RETRY_LIMIT
        /\ tasks[t].pc = "done" =>
              CASE Script(t)[rc].kind = "reply" ->
                       tasks[t].result = Success(Script(t)[rc].time)
                [] Script(t)[rc].kind = "timeout" -> tasks[t].result = Timeout
                [] Script(t)[rc].kind = "error" ->
                       tasks[t].result = Error /\ rc = RETRY_LIMIT

(* C8 witness: a probe returned Error after RETRY_LIMIT attempts *)
C8_ErrorAfterRetries ==
    \E t \in DOMAIN tasks :
        /\ tasks[t].pc = "done"
        /\ tasks[t].result = Error
        /\ tasks[t].retry_counter = RETRY_LIMIT

(* An outcome, or a /16 result, with every RTT cut to whole milliseconds *)
WholeMs(outcome) ==
    IF outcome.tag = "Success"
    THEN Success(from_millis(as_millis(outcome.time)))
    ELSE outcome
WholeMs16(results) ==
    [c \in DOMAIN results |->
        IF results[c].some
        THEN Some([d \in DOMAIN results[c].val |-> WholeMs(results[c].val[d])])
        ELSE None]
Outcomes16(results) ==
    {results[c].val[d] : c \in {x \in DOMAIN results : results[x].some}, d \in 1 .. N32}
RttBelow65536(results) == \A o \in Outcomes16(results) : as_millis(o.time) < 65536
RttWholeMs(results) == \A o \in Outcomes16(results) : o.time % 1000 = 0
SavedAndRead == codec.op = "slash16" /\ codec.stage = "decoded"

(* C9 as stated: for every /16 result with RTTs below 65,536 ms, reading   *)
(* the saved file yields exactly the result that was saved.                *)
C9_RoundTripExact ==
    (SavedAndRead /\ RttBelow65536(codec.r)) => codec.out = ReadSome(codec.r)

(* C9 amended: for every /16 result with RTTs below 65,536 ms, reading the *)
(* saved file consumes the stream to its end and yields the result with    *)
(* each RTT cut to whole milliseconds: exactly the saved result when its   *)
(* RTTs are whole milliseconds.                                            *)
C9_RoundTripWholeMs ==
    (SavedAndRead /\ RttBelow65536(codec.r)) =>
        /\ codec.out = ReadSome(WholeMs16(codec.r))
        /\ RttWholeMs(codec.r) => codec.out = ReadSome(codec.r)
        /\ parse_slash_16(ZlibDecoder(codec.bytes).data).input = <<>>

(* C9 witness: a result with present and absent /24s and a Success of a    *)
(* whole number of milliseconds was saved and read back identical          *)
C9_MixedReadBack ==
    /\ SavedAndRead
    /\ \E c1, c2 \in DOMAIN codec.r :
          /\ codec.r[c1].some /\ ~codec.r[c2].some
          /\ \E d \in 1 .. N32 :
                codec.r[c1].val[d].tag = "Success" /\ codec.r[c1].val[d].time = 12000
    /\ codec.out = ReadSome(codec.r)

Serialized == codec.op = "outcome" /\ codec.stage = "decoded"
Millis == as_millis(codec.r.time)

(* C10: for every outcome with RTT up to 65,535 ms, serialize gives 0x00   *)
(* and the RTT in milliseconds as 2 little-endian bytes for Success, 0x01  *)
(* for Timeout, 0x02 for Error; parsing these bytes followed by any input  *)
(* gives the outcome back, its RTT in whole milliseconds, and that input.  *)
C10_OutcomeRoundTrip ==
    (Serialized /\ Millis <= 65535) =>
        /\ codec.bytes =
              CASE codec.r.tag = "Success" -> <<0, Millis % 256, Millis \div 256>>
                [] codec.r.tag = "Timeout" -> <<1>>
                [] codec.r.tag = "Error" -> <<2>>
        /\ codec.out = ParseOk(codec.rest, WholeMs(codec.r))

(* C10 witness: a Success whose RTT needs both bytes was parsed back from  *)
(* in front of further input                                               *)
C10_TwoByteRtt ==
    /\ Serialized
    /\ codec.r.tag = "Success" /\ Millis = 300
    /\ codec.rest = <<1, 2>>
    /\ codec.out.ok

(* C11: encoding Success(rtt) with rtt of 65,536 ms or more writes the     *)
(* saturated value 0xFFFF, bytes FF FF, never rtt mod 2^16.                *)
C11_RttSaturates ==
    (/\ codec.op = "outcome" /\ codec.stage \in {"encoded", "decoded"}
     /\ codec.r.tag = "Success" /\ Millis >= 65536)
        => codec.bytes = <<0, 255, 255>>

(* The file found for /16 n inflates to a whole /16 encoding and more bytes *)
FoundTrailingBytes(n) ==
    /\ hist.disk0[Slash16Of(n)].exists
    /\ LET z == ZlibDecoder(hist.disk0[Slash16Of(n)].bytes) IN
       /\ z.ok
       /\ parse_slash_16(z.data).ok
       /\ Len(parse_slash_16(z.data).input) > 0

(* C12: when the inflated stream of a result file is a valid /16 encoding  *)
(* followed by extra bytes, the read gives back an error value: it does    *)
(* not return a result and it does not abort the prober.                   *)
C12_TrailingBytesIsError ==
    \A n \in Indices :
        (IsCandidate(n) /\ Reached(n) /\ FoundTrailingBytes(n) /\ ~ReadFailedAt(n)) =>
            /\ ~(planner.cur = n /\ planner.pc = "panicked")
            /\ State16(n) # "Skipped"

Analysed == codec.op = "slash16" /\ codec.stage = "analysed"
Absent24s == {c \in DOMAIN codec.r : ~codec.r[c].some}
Present24s == {c \in DOMAIN codec.r : codec.r[c].some}
Explicit(tag) ==
    {<<c, d>> \in Present24s \X (1 .. N32) : codec.r[c].val[d].tag = tag}

(* C13: for a /16 result with some /24s absent, timed_out is the number of *)
(* explicit Timeout outcomes plus the size of a /24 for each absent /24,   *)
(* and errored is the number of explicit Error outcomes: an absent /24     *)
(* counts like a present /24 of Timeouts only.                             *)
C13_AbsentCountsAsTimedOut ==
    (Analysed /\ Absent24s # {}) =>
        /\ codec.out.alive = Cardinality(Explicit("Success"))
        /\ codec.out.timed_out =
              Cardinality(Explicit("Timeout")) + N32 * Cardinality(Absent24s)
        /\ codec.out.errored = Cardinality(Explicit("Error"))

(* C14: for every /16 result, whatever the mix of present and absent /24s, *)
(* alive + timed_out + errored is the number of addresses of the /16.      *)
C14_CountsSumToSlash16 ==
    Analysed => codec.out.alive + codec.out.timed_out + codec.out.errored = N24 * N32

(* C14 witness: a result with a present and an absent /24 was reduced and  *)
(* each of the three counts is above zero                                  *)
C14_MixedReduced ==
    /\ Analysed
    /\ Absent24s # {} /\ Present24s # {}
    /\ codec.out.alive > 0 /\ codec.out.timed_out > 0 /\ codec.out.errored > 0

(* The octets of s after the first mask / 8 are zero *)
AlignedFor(octets, mask) == \A i \in (mask \div 8) + 1 .. 4 : octets[i] = 0
HasValue == subnet.stage \in {"value", "iterating", "formatted", "addresses"}
                /\ subnet.value # NoSubnet

(* C15: every Subnet made by new, parse, Default or child iteration has a  *)
(* base whose octets after the first mask / 8 are zero; new yields no      *)
(* Subnet for a misaligned base; each child of a subnet has the mask of    *)
(* its parent plus 8 and is aligned for it.                                *)
C15_SubnetAligned ==
    /\ HasValue =>
          /\ subnet.value.mask \in SubnetMasks
          /\ AlignedFor(subnet.value.base_address, subnet.value.mask)
    /\ (subnet.how = "new" /\ ~AlignedFor(subnet.input[1], subnet.input[2])) =>
          subnet.stage = "panicked"
    /\ (HasValue /\ subnet.how = "child") =>
          /\ subnet.value.mask = subnet.parent.mask + 8
          /\ AlignedFor(subnet.value.base_address, subnet.parent.mask + 8)

(* C15 witness: the last /24 child of 10.255.x.x has come out of the       *)
(* iterator of a subnet that was itself a child                            *)
C15_LastChildOfChild ==
    /\ subnet.stage = "iterating" /\ subnet.how = "child"
    /\ subnet.parent = [base_address |-> <<10, 255, 0, 0>>, mask |-> 16]
    /\ subnet.value = [base_address |-> <<10, 255, 255, 0>>, mask |-> 24]

(* The last address of a subnet: the octets the mask leaves open are 255 *)
LastAddress(s) ==
    [i \in 1 .. 4 |-> IF i <= s.mask \div 8 THEN s.base_address[i] ELSE 255]

(* C16: for every subnet, /0 and those ending at 255.255.255.255 included, *)
(* the addresses run from the base to the base + 2^(32-mask) - 1 and no    *)
(* 32-bit intermediate value overflows.                                    *)
C16_AddressesWithoutOverflow ==
    subnet.stage = "addresses" =>
        /\ subnet.out.kind = "ok"
        /\ ~subnet.out.value.overflowed
        /\ subnet.out.value.first = subnet.value.base_address
        /\ subnet.out.value.last = LastAddress(subnet.value)

BlockTuples == BlockTexts \X BlockTexts \X BlockTexts \X BlockTexts
TextOf(t) == t[1] \o <<".">> \o t[2] \o <<".">> \o t[3] \o <<".">> \o t[4]
Wild(t, i) == t[i] = <<"x">>
Concrete(t) == Cardinality({i \in 1 .. 4 : ~Wild(t, i)})
WildcardsTrail(t) == \A i, j \in 1 .. 4 : (i < j /\ Wild(t, i)) => Wild(t, j)

(* C17: parsing a four-block text whose wildcards only trail gives a       *)
(* subnet with mask 8 times the number of concrete octets, and formatting  *)
(* it gives the text back; a four-block text in which a wildcard is        *)
(* followed by a concrete octet is rejected with a parse error value.      *)
C17_ParseFormatRoundTrip ==
    \A t \in BlockTuples :
        (subnet.how = "parse" /\ subnet.input = TextOf(t)) =>
            IF WildcardsTrail(t)
            THEN /\ subnet.stage \in {"value", "formatted", "addresses"}
                 /\ subnet.value.mask = 8 * Concrete(t)
                 /\ subnet.stage = "formatted" => subnet.out = subnet.input
            ELSE subnet.stage = "error"

(* C17 witness: 10.255.x.x was parsed and formatted back *)
C17_Slash16TextBack ==
    /\ subnet.stage = "formatted" /\ subnet.how = "parse"
    /\ subnet.input = <<"1", "0", ".", "2", "5", "5", ".", "x", ".", "x">>
    /\ subnet.out = subnet.input
    /\ subnet.value = [base_address |-> <<10, 255, 0, 0>>, mask |-> 16]

(* The messages the handler has received with the tag of worker w *)
HandledFrom(w) ==
    LET Tagged(item) == item[1] = w
        items == SelectSeq(master.handled, Tagged)
    IN  [i \in 1 .. Len(items) |-> items[i][2]]

(* C18: for each worker, the messages the W2M handler has received with    *)
(* that worker's tag are, in order, the first messages that worker wrote   *)
(* to its socket, whatever the interleaving of the reader threads; every   *)
(* message carries the tag of the worker that wrote it.                    *)
C18_PerWorkerFifo ==
    /\ \A w \in Ids :
          /\ Len(HandledFrom(w)) <= Len(master.workers[w].written)
          /\ HandledFrom(w) = SubSeq(master.workers[w].written, 1, Len(HandledFrom(w)))
    /\ \A i \in 1 .. Len(master.handled) :
          /\ master.handled[i][1] \in Ids
          /\ master.handled[i][2].addr = master.handled[i][1]

(* C18 witness: the handler has received both messages of worker 0 with a  *)
(* message of worker 1 between them                                        *)
C18_InterleavedWorkers ==
    /\ Len(master.handled) = 3
    /\ master.handled[1] = <<0, StateChanged(0, 1)>>
    /\ master.handled[2] = <<1, StateChanged(1, 1)>>
    /\ master.handled[3] = <<0, StateChanged(0, 2)>>

(* C19: when a worker's stream ends or carries an undecodable message, the *)
(* master process does not terminate.                                      *)
C19_WorkerLossKeepsMasterUp ==
    \A id \in Ids : master.threads[id] = "disconnected" => master.process = "running"

(* C20: a worker is spawned only after the listener of its socket path is  *)
(* bound; each listener accepts one connection, never more; the W2M        *)
(* handler is started, and init returns, only after all the workers have   *)
(* connected.                                                              *)
C20_ConnectBeforeHandler ==
    /\ \A id \in Ids :
          /\ master.workers[id].state # "none" =>
                /\ master.workers[id].socket = socket_path(id)
                /\ socket_path(id) \in master.listeners
          /\ master.accepts[id] <= 1
          /\ master.threads[id] \in {"reading", "disconnected"} => master.accepts[id] = 1
    /\ (master.handler # "none" \/ master.main.pc \in {"handler", "returned"}) =>
          \A id \in Ids : master.accepts[id] = 1 /\ master.connect[id] = "sent"

(* C20 witness: the handler runs with two or more workers, all connected *)
C20_HandlerAfterAllConnected ==
    /\ master.count >= 2
    /\ master.handler = "running"
    /\ \A id \in Ids : master.accepts[id] = 1

(***************************************************************************)
(* The grids, the sweep and the ping futures of one /16.                   *)
(***************************************************************************)
Terminal32 == {"Success", "Timeout", "Error"}
Terminal16 == {"Completed", "Skipped", "Errored"}

Cell(t) == SLASH_32_STATES[tasks[t].address[3]][tasks[t].address[4]]

(* the whole-grid reset of main.rs 108-111 *)
GridReset ==
    /\ planner.pc = "probe"
    /\ planner'.pc = "join"
    /\ \A c \in Octets24, d \in Octets32 : SLASH_32_STATES'[c][d] = "Scheduled"

(* C21: within one /16 probe a /32 cell only steps from Scheduled to       *)
(* Pending and from Pending to Success, Timeout or Error: it never goes    *)
(* back, never skips Pending, and a terminal cell stays as it is until the *)
(* whole grid is reset when the next /16 is probed.                        *)
C21_Slash32Lifecycle ==
    [][\/ GridReset
       \/ \A c \in Octets24, d \in Octets32 :
             \/ SLASH_32_STATES'[c][d] = SLASH_32_STATES[c][d]
             \/ /\ SLASH_32_STATES[c][d] = "Scheduled"
                /\ SLASH_32_STATES'[c][d] = "Pending"
             \/ /\ SLASH_32_STATES[c][d] = "Pending"
                /\ SLASH_32_STATES'[c][d] \in Terminal32]_vars

(* C21 witness: in a second probed /16, after the reset, one cell is       *)
(* Scheduled, one Pending and one terminal                                 *)
C21_ThreeStagesAfterReset ==
    /\ Cardinality(hist.probed) >= 2
    /\ \E t, u, v \in DOMAIN tasks :
          /\ Cell(t) = "Scheduled"
          /\ Cell(u) = "Pending"
          /\ Cell(v) \in Terminal32

(* C22: a /16 cell only steps from Scheduled to Pending and from Pending   *)
(* to Completed, Skipped or Errored: it is never Completed or Skipped      *)
(* without having been Pending, and a terminal cell never changes.         *)
C22_Slash16Lifecycle ==
    [][\A a \in Octets8, b \in Octets16 :
          \/ SLASH_16_STATES'[a][b] = SLASH_16_STATES[a][b]
          \/ /\ SLASH_16_STATES[a][b] = "Scheduled"
             /\ SLASH_16_STATES'[a][b] = "Pending"
          \/ /\ SLASH_16_STATES[a][b] = "Pending"
             /\ SLASH_16_STATES'[a][b] \in Terminal16]_vars

(* C22 witness: one /16 was skipped, one completed and a third is Pending *)
C22_SkippedCompletedPending ==
    \E n, m, k \in Indices :
        /\ State16(n) = "Skipped"
        /\ State16(m) = "Completed"
        /\ State16(k) = "Pending"

(* the /16s at or after the start address *)
Planned(n) ==
    \/ OctetA(n) > base_address[1]
    \/ OctetA(n) = base_address[1] /\ OctetB(n) >= base_address[2]

Untouched(n) ==
    /\ State16(n) = "Scheduled"
    /\ n \notin hist.probed
    /\ disk[Slash16Of(n)] = hist.disk0[Slash16Of(n)]

(* C23: the planner processes the /16s at or after the start address, each *)
(* once and in ascending order: those before the /16 in hand are Completed *)
(* or Skipped, those after it are untouched, and when the sweep finishes   *)
(* all of them are Completed or Skipped.  A /16 before the start address   *)
(* stays Scheduled and is never read, probed or written.                   *)
C23_SweepFromStart ==
    /\ planner.cur = -1 \/ Planned(planner.cur)
    /\ \A n \in Indices :
          /\ ~Planned(n) => Untouched(n)
          /\ (Planned(n) /\ n < planner.cur) => State16(n) \in {"Completed", "Skipped"}
          /\ (Planned(n) /\ n > planner.cur) => Untouched(n)
          /\ (Planned(n) /\ planner.pc = "finished") =>
                State16(n) \in {"Completed", "Skipped"}

(* C23 witness: started at 1.0 with a result for 1.0 on disk, 1.0 is       *)
(* Skipped, 1.1 was probed and saved, 0.0 and 0.1 are Scheduled            *)
C23_StartAtOneZero ==
    /\ base_address = <<1, 0>>
    /\ hist.disk0[<<1, 0>>].exists
    /\ State16(Index(1, 0)) = "Skipped"
    /\ Index(1, 1) \in hist.probed
    /\ State16(Index(1, 1)) = "Completed"
    /\ disk[<<1, 1>>].exists
    /\ State16(Index(0, 0)) = "Scheduled"
    /\ State16(Index(0, 1)) = "Scheduled"

Aggregated == codec.op = "aggregate" /\ codec.stage = "aggregated"

AllTimeout(c) == \A d \in Octets32 : codec.r[c][d] = Timeout

(* C24: whatever the outcomes of the addresses of a /16, the aggregated    *)
(* result of /24 c is None exactly when every address c.d timed out, and   *)
(* otherwise its entry d is the outcome of the task of address c.d.        *)
C24_AggregationByAddress ==
    Aggregated =>
        \A c \in Octets24 :
            /\ (codec.out[c + 1] = None) <=> AllTimeout(c)
            /\ ~AllTimeout(c) =>
                  /\ codec.out[c + 1].some
                  /\ \A d \in Octets32 : codec.out[c + 1].val[d + 1] = codec.r[c][d]

(* C24 witness: /24 0 all timed out, /24 1 has an Error at .0 and a        *)
(* Success at .1                                                           *)
C24_NoneAndMixed ==
    /\ Aggregated
    /\ AllTimeout(0)
    /\ codec.out[1] = None
    /\ codec.r[1][0] = Error
    /\ codec.r[1][1] = Success(700)
    /\ codec.out[2].val[1] = Error
    /\ codec.out[2].val[2] = Success(700)

(* C25: the k-th emitted task, counted from 0, targets third octet         *)
(* k mod N24 and fourth octet k div N24 of the /16 in hand, and every      *)
(* address of the /16 is the target of exactly one task.                   *)
C25_EmissionOrder ==
    tasks # <<>> =>
        /\ Len(tasks) = N24 * N32
        /\ \A k \in DOMAIN tasks :
              /\ tasks[k].address[3] = (k - 1) % N24
              /\ tasks[k].address[4] = (k - 1) \div N24
        /\ \A c \in Octets24, d \in Octets32 :
              Cardinality({k \in DOMAIN tasks :
                              /\ tasks[k].address[3] = c
                              /\ tasks[k].address[4] = d}) = 1

(* C25 witness: the futures of 0.1 are built; the second targets 0.1.1.0   *)
(* and the one after the first round targets 0.1.0.1                       *)
C25_SecondRoundStarted ==
    /\ planner.pc = "join"
    /\ Len(tasks) > N24
    /\ tasks[2].address = <<0, 1, 1, 0>>
    /\ tasks[N24 + 1].address = <<0, 1, 0, 1>>

(* tokio polls every future that can make progress and fires every timer   *)
Fairness ==
    /\ WF_vars(PlannerNext)
    /\ WF_vars(ReadSlash16)
    /\ WF_vars(StartProbe)
    /\ WF_vars(JoinAll)
    /\ WF_vars(SaveCreate)
    /\ WF_vars(SaveWrite)
    /\ \A t \in TaskIds :
          WF_vars(/\ t \in DOMAIN tasks
                  /\ \/ Wake(t)
                     \/ Reply(t)
                     \/ Expire(t)
                     \/ TransportError(t)
                     \/ Retry(t))

LiveSpec == Init /\ [][Next]_vars /\ Fairness

(* C26: under fair scheduling, every attempt returning, every probed /16   *)
(* eventually leaves Pending.                                              *)
C26_ProbedLeavesPending ==
    \A n \in Indices : (n \in hist.probed) ~> (State16(n) # "Pending")

(* C27: when all the ping tasks of a /16 have resolved, no /32 cell is     *)
(* Scheduled or Pending and the cell of each address holds the terminal    *)
(* state of the outcome its task returned.                                 *)
C27_CellsMatchOutcomes ==
    (tasks # <<>> /\ AllDone) =>
        /\ \A c \in Octets24, d \in Octets32 :
              SLASH_32_STATES[c][d] \notin {"Scheduled", "Pending"}
        /\ \A t \in DOMAIN tasks : Cell(t) = tasks[t].result.tag

(* C27 witness: all resolved, one with Error and the others with Timeout *)
C27_ResolvedWithError ==
    /\ tasks # <<>>
    /\ AllDone
    /\ \E t \in DOMAIN tasks :
          /\ tasks[t].result = Error
          /\ Cell(t) = "Error"
          /\ \A u \in DOMAIN tasks \ {t} : tasks[u].result = Timeout

NotStarted(t) == tasks[t].pc \in {"queued", "stagger"}

(* C28: when the first ping task of a probed /16 starts every /32 cell is  *)
(* Scheduled, a cell stays Scheduled until its own task marks it, and the  *)
(* tasks of an earlier /16 have all resolved when the grid is reset, so    *)
(* none of them writes a cell afterwards.                                  *)
C28_FreshGridPerProbe ==
    /\ (tasks # <<>> /\ \A t \in DOMAIN tasks : NotStarted(t)) =>
          \A c \in Octets24, d \in Octets32 : SLASH_32_STATES[c][d] = "Scheduled"
    /\ \A t \in DOMAIN tasks : NotStarted(t) => Cell(t) = "Scheduled"
    /\ planner.pc = "probe" => AllDone
    /\ \A t \in DOMAIN tasks :
          tasks[t].pc # "done" =>
              /\ planner.pc = "join"
              /\ <<tasks[t].address[1], tasks[t].address[2]>> = Cur

(* C28 witness: a /16 was probed and saved, and the futures of the next    *)
(* one have just been built                                                *)
C28_SecondProbeNotStarted ==
    /\ hist.completed # {}
    /\ planner.cur \in hist.probed \ hist.completed
    /\ tasks # <<>>
    /\ \A t \in DOMAIN tasks : NotStarted(t)

(* C29: a permit is out of the pool exactly while a task holds it, which   *)
(* includes the sleep between two attempts, and once every task has        *)
(* resolved all the permits are back and nobody waits.                     *)
C29_PermitsConserved ==
    /\ PING_PERMITS + Cardinality(Holders) = Permits
    /\ AllDone => PING_PERMITS = Permits /\ waiters = <<>>

(* C29 witness: a task sleeps before its retry while the pool is empty and *)
(* others wait                                                             *)
C29_HeldDuringBackoff ==
    /\ PING_PERMITS = 0
    /\ waiters # <<>>
    /\ \E t \in DOMAIN tasks : tasks[t].pc = "backoff"

(* C30: the tasks of one /16 have pairwise distinct identifiers and        *)
(* pairwise distinct sequence numbers, and every echo request of a task,   *)
(* retries included, carries the identifier and sequence number the task   *)
(* took when it was created.                                               *)
C30_DistinctIdentifiers ==
    /\ \A t, u \in DOMAIN tasks :
          t # u => tasks[t].i # tasks[u].i /\ tasks[t].s # tasks[u].s
    /\ \A t \in DOMAIN tasks :
          \A j \in DOMAIN tasks[t].sent : tasks[t].sent[j] = <<tasks[t].i, tasks[t].s>>

(* C30 witness: the counters have wrapped, the last task has the greatest  *)
(* identifier and a task has sent a retry                                  *)
C30_RetryAfterWrap ==
    /\ tasks # <<>>
    /\ IDENTIFIER = 0
    /\ tasks[NumTasks].i = U16_RANGE - 1
    /\ \E t \in DOMAIN tasks :
          /\ Len(tasks[t].sent) = 2
          /\ tasks[t].sent[1] = tasks[t].sent[2]

====
